---- MODULE Spec2Model ----
(***************************************************************************)
(* 'typescript' cleanup pass of tedium (src/cleanup-passes/typescript.ts). *)
(*                                                                         *)
(* One process runs typescriptPass a bounded number of times, one          *)
(* invocation after the other, on an element repository whose files        *)
(* persist between invocations.  Every await of the pass is one action;    *)
(* the synchronous code that follows an await belongs to the same action.  *)
(* External collaborators (fs-extra, npm, js-yaml, semver, nodegit) are    *)
(* modelled by their outcomes, failures included.                          *)
(***************************************************************************)
EXTENDS Integers, Sequences, FiniteSets, TLC

\* ------------------------------------------------------------------ bounds
MaxVer == 1
MaxLines == 2
MaxStatus == 2
MaxRuns == 2

\* --------------------------------------------------------------- constants
generatorPackageName == "@polymer/gen-typescript-declarations"
npmScriptName == "update-types"
npmScriptCommand == "bower install && gen-typescript-declarations --deleteExisting --outDir ."
bowerDefaultRange == "^1.8.0"
commitMessage == "Update and/or configure type declarations."
ghRepoName == "paper-button"

\* JavaScript's undefined, for string-valued and version-valued slots.
Undefined == "undefined"
NoVersion == <<>>

\* ------------------------------------------------------------------ semver
\* A version is major.minor.patch; the registry pattern /\d+\.\d+\.\d+/
\* admits nothing else.
Versions == (0..MaxVer) \X (0..MaxVer) \X (0..MaxVer)

VLess(a, b) ==
    \/ a[1] < b[1]
    \/ a[1] = b[1] /\ a[2] < b[2]
    \/ a[1] = b[1] /\ a[2] = b[2] /\ a[3] < b[3]

VGeq(a, b) == ~VLess(a, b)

\* A range as package.json holds it: an operator and a version, or '*', or
\* text semver cannot parse, or no entry at all.
NoRange == [op |-> "undefined", v |-> <<0, 0, 0>>]
AnyRange == [op |-> "*", v |-> <<0, 0, 0>>]
BadRange == [op |-> "invalid", v |-> <<0, 0, 0>>]
Ranges == [op : {"^", "~", "="}, v : Versions] \cup {AnyRange, BadRange}

\* '^' + version (line 85).
Caret(v) == [op |-> "^", v |-> v]

\* Upper end (exclusive) of a caret range: the next value of the leftmost
\* non-zero component.
CaretUpper(v) ==
    IF v[1] > 0 THEN <<v[1] + 1, 0, 0>>
    ELSE IF v[2] > 0 THEN <<0, v[2] + 1, 0>>
    ELSE <<0, 0, v[3] + 1>>

TildeUpper(v) == <<v[1], v[2] + 1, 0>>

\* semver.satisfies(version, range); an unparsable range admits nothing.
Satisfies(ver, range) ==
    CASE range.op = "^" -> VGeq(ver, range.v) /\ VLess(ver, CaretUpper(range.v))
      [] range.op = "~" -> VGeq(ver, range.v) /\ VLess(ver, TildeUpper(range.v))
      [] range.op = "=" -> ver = range.v
      [] range.op = "*" -> TRUE
      [] OTHER -> FALSE

\* ---------------------------------------------------------------- manifest
\* package.json as parsed: devDependencies and scripts may be absent; of the
\* entries only the three the pass reads are kept.
Scripts == {npmScriptCommand, "gen-typescript-declarations --outDir ."}
BowerRanges == {bowerDefaultRange, "^1.7.0"}

Manifests ==
    { m \in [hasDev : BOOLEAN, gen : Ranges \cup {NoRange},
             bower : BowerRanges \cup {Undefined},
             hasScripts : BOOLEAN, script : Scripts \cup {Undefined}] :
        /\ (~m.hasDev => m.gen = NoRange /\ m.bower = Undefined)
        /\ (~m.hasScripts => m.script = Undefined) }

NoManifest == [hasDev |-> FALSE, gen |-> NoRange, bower |-> Undefined,
               hasScripts |-> FALSE, script |-> Undefined]

\* package.json on disk: readable JSON with a manifest, or missing/invalid.
PkgFiles == [valid : {TRUE}, m : Manifests] \cup {[valid |-> FALSE, m |-> NoManifest]}

\* Lines 72-77: default the two maps.
EnsureMaps(m) == [m EXCEPT !.hasDev = TRUE, !.hasScripts = TRUE]

\* Variant of MajorVersionBump that compares the old range with the new
\* pin instead of asking semver.
MajorVersionBumpByText(oldRange, newVersion) == oldRange # Caret(newVersion)

\* Variant of MajorVersionBump without the '!' of line 82.
MajorVersionBumpInverted(oldRange, newVersion) ==
    oldRange = NoRange \/ Satisfies(newVersion, oldRange)

\* Lines 80-84.
MajorVersionBump(oldRange, newVersion) ==
    oldRange = NoRange \/ ~Satisfies(newVersion, oldRange)

\* Variant of ScriptNeedsUpdate that compares the entry with the script's
\* name instead of its command.
ScriptNeedsUpdateByName(m) == m.script # npmScriptName

\* Lines 93-96.
ScriptNeedsUpdate(m) == m.script # npmScriptCommand

\* Lines 85-96: the manifest as it is handed to writeJson.
UpdateManifest(m, newVersion) ==
    [m EXCEPT
        !.gen = Caret(newVersion),
        !.bower = IF m.bower = Undefined THEN bowerDefaultRange ELSE m.bower,
        !.script = npmScriptCommand]

\* --------------------------------------------------------------- CI config
\* A before_script line is a sequence of words; String.includes is a search
\* for the word.
marker == "update-types"
travisCommand ==
    <<"npm run", "update-types",
      "&& git diff --exit-code || (echo -e '\\n\\033[31mERROR:\\033[0m Typings are stale. Please run \"npm run update-types\".' && false)">>
Lines == {<<"npm test">>, <<"npm run", "update-types", "&& git diff --exit-code">>, travisCommand}

Includes(line, word) == \E i \in 1..Len(line) : line[i] = word

SeqsUpTo(S, n) == UNION {[1..k -> S] : k \in 0..n}

\* .travis.yml on disk: absent; a document whose before_script is a list
\* ("list"), is missing ("nolist") or is a scalar string ("scalar"); or text
\* that does not load as a document ("invalid").
NoTravis == [exists |-> FALSE, kind |-> "nolist", bs |-> <<>>]
TravisFiles ==
    {NoTravis}
    \cup [exists : {TRUE}, kind : {"list"}, bs : SeqsUpTo(Lines, MaxLines)]
    \cup [exists : {TRUE}, kind : {"nolist", "scalar", "invalid"}, bs : {<<>>}]

RECURSIVE Filter(_)
\* Lines 111-112: drop every line that includes the marker.
Filter(bs) ==
    IF bs = <<>> THEN <<>>
    ELSE IF Includes(Head(bs), marker) THEN Filter(Tail(bs))
    ELSE <<Head(bs)>> \o Filter(Tail(bs))

\* Variant of UpdateBeforeScript without the filter of lines 111-112.
UpdateBeforeScriptNoFilter(doc) ==
    Append(IF doc.kind = "nolist" THEN <<>> ELSE doc.bs, travisCommand)

\* Lines 107-126: the before_script list handed to safeDump.
UpdateBeforeScript(doc) ==
    Append(Filter(IF doc.kind = "nolist" THEN <<>> ELSE doc.bs), travisCommand)

\* ---------------------------------------------------------- classification
\* A path is a sequence of segments whose last one carries the suffix.
DtsSuffix == ".d.ts"
TravisPath == <<".travis.yml">>
PackageJsonPath == <<"package.json">>
PackageLockPath == <<"package-lock.json">>
Paths == {<<"paper-button", DtsSuffix>>, TravisPath, PackageJsonPath,
          PackageLockPath, <<"demo/", "package.json">>}

EndsWith(p, suffix) == Len(p) > 0 /\ p[Len(p)] = suffix

\* getStatus reports each changed path once.
StatusLists ==
    {s \in SeqsUpTo(Paths, MaxStatus) :
        \A i, j \in 1..Len(s) : s[i] = s[j] => i = j}

NoClass == [types |-> FALSE, travis |-> FALSE, files |-> <<>>, log |-> <<>>]

UnexpectedLine(p) == [msg |-> "Unexpected changed file", path |-> p]

\* Variant of ClassifyOne without the 'continue' of line 157.
ClassifyOneNoContinue(acc, p) ==
    IF EndsWith(p, DtsSuffix)
        THEN [acc EXCEPT !.types = TRUE, !.files = Append(@, p)]
    ELSE IF p = TravisPath
        THEN [acc EXCEPT !.travis = TRUE, !.files = Append(@, p)]
    ELSE IF p = PackageJsonPath \/ p = PackageLockPath
        THEN [acc EXCEPT !.files = Append(@, p)]
    ELSE [acc EXCEPT !.log = Append(@, UnexpectedLine(p)), !.files = Append(@, p)]

\* Lines 147-159: one turn of the loop.
ClassifyOne(acc, p) ==
    IF EndsWith(p, DtsSuffix)
        THEN [acc EXCEPT !.types = TRUE, !.files = Append(@, p)]
    ELSE IF p = TravisPath
        THEN [acc EXCEPT !.travis = TRUE, !.files = Append(@, p)]
    ELSE IF p = PackageJsonPath \/ p = PackageLockPath
        THEN [acc EXCEPT !.files = Append(@, p)]
    ELSE [acc EXCEPT !.log = Append(@, UnexpectedLine(p))]

RECURSIVE ClassifyFrom(_, _)
\* Lines 145-160: the loop over the status list.
ClassifyFrom(acc, st) ==
    IF st = <<>> THEN acc ELSE ClassifyFrom(ClassifyOne(acc, Head(st)), Tail(st))

Classify(st) == ClassifyFrom(NoClass, st)

\* Variant of ShouldCommit that leaves out updatedNpmScript.
ShouldCommitNoScript(types, bump, script, travis) == types \/ bump \/ travis

\* Line 162.
ShouldCommit(types, bump, script, travis) == types \/ bump \/ script \/ travis

\* ------------------------------------------------------------------- state
VARIABLES
    pc,                     \* where the current invocation stands
    run,                    \* invocations of typescriptPass so far
    latestGeneratorVersion, \* line 35: the module-level cache
    fetches,                \* 'npm info' subprocesses spawned by the process
    pkgFile,                \* package.json on disk
    travisFile,             \* .travis.yml on disk
    lockFile,               \* package-lock.json exists
    packageJson,            \* line 60
    majorVersionBump,       \* line 67
    updatedNpmScript,       \* line 68
    updatedTravis,          \* line 69
    updatedTypes,           \* line 70
    status,                 \* what getStatus returned (line 146)
    commitFiles,            \* line 145
    commits,                \* file lists committed by this invocation
    effects,                \* external calls of this invocation, in order
    log,                    \* console.log lines of this invocation
    error,                  \* what this invocation threw
    changed,                \* paths whose content this invocation changed
    persisted,              \* paths this invocation wrote successfully
    prior                   \* paths the invocation before this one wrote

files == <<pkgFile, travisFile, lockFile>>
flags == <<majorVersionBump, updatedNpmScript, updatedTravis, updatedTypes>>
locals == <<packageJson, status, commitFiles>>
cache == <<latestGeneratorVersion, fetches>>
trace == <<commits, effects, log, error, changed, persisted, prior>>
vars == <<pc, run, cache, files, locals, flags, trace>>

\* The generator range (lines 80-85), the rest of the manifest (lines 72-77,
\* 89-96) and the CI config (lines 101-130) are handled by disjoint code:
\* an initial repository varies at most one of the three away from plain.
GenPlain(f) == f.m.gen \in {NoRange, AnyRange}
RestPlain(f) == f.valid => f.m.bower = Undefined /\ f.m.script = npmScriptCommand
TravisPlain(t) == t.bs = <<>> /\ t.kind \in {"list", "nolist"}
Repositories ==
    {r \in [pkg : PkgFiles, travis : TravisFiles, lock : BOOLEAN] :
        \/ GenPlain(r.pkg) /\ RestPlain(r.pkg)
        \/ GenPlain(r.pkg) /\ TravisPlain(r.travis)
        \/ RestPlain(r.pkg) /\ TravisPlain(r.travis)}

NoError == [repo |-> "", msg |-> ""]
Thrown(msg) == [repo |-> "", msg |-> msg]
\* Line 64.
ManifestError == [repo |-> ghRepoName, msg |-> "Missing or invalid package.json."]
\* Lines 42-43.
VersionError == Thrown("Could not find latest version of @polymer/gen-typescript-declarations")
Line(msg) == [msg |-> msg, path |-> <<>>]
\* Line 129.
MissingTravisLine == Line("Missing .travis.yaml")
\* Line 167.
NoChangesLine == Line("No typings changed.")

\* A throw ends the invocation: the error reaches the caller and the frame,
\* with its locals, is gone.
Fail(e) ==
    /\ pc' = "failed"
    /\ error' = e
    /\ packageJson' = NoManifest
    /\ majorVersionBump' = FALSE
    /\ updatedNpmScript' = FALSE
    /\ updatedTravis' = FALSE
    /\ updatedTypes' = FALSE
    /\ status' = <<>>
    /\ commitFiles' = <<>>

\* An await resolves and the pass moves on to the next one.
Goto(next) ==
    /\ pc' = next
    /\ UNCHANGED <<error, locals, flags>>

Init ==
    /\ pc = "idle"
    /\ run = 0
    /\ latestGeneratorVersion = NoVersion
    /\ fetches = 0
    /\ \E r \in Repositories :
        pkgFile = r.pkg /\ travisFile = r.travis /\ lockFile = r.lock
    /\ packageJson = NoManifest
    /\ majorVersionBump = FALSE
    /\ updatedNpmScript = FALSE
    /\ updatedTravis = FALSE
    /\ updatedTypes = FALSE
    /\ status = <<>>
    /\ commitFiles = <<>>
    /\ commits = <<>>
    /\ effects = <<>>
    /\ log = <<>>
    /\ error = NoError
    /\ changed = {}
    /\ persisted = {}
    /\ prior = {}

\* The runner calls typescriptPass(element): lines 58-60, 67-70.
Invoke ==
    /\ pc \in {"idle", "done", "failed"}
    /\ run < MaxRuns
    /\ run' = run + 1
    /\ pc' = "readJson"
    /\ packageJson' = NoManifest
    /\ majorVersionBump' = FALSE
    /\ updatedNpmScript' = FALSE
    /\ updatedTravis' = FALSE
    /\ updatedTypes' = FALSE
    /\ status' = <<>>
    /\ commitFiles' = <<>>
    /\ commits' = <<>>
    /\ effects' = <<>>
    /\ log' = <<>>
    /\ error' = NoError
    /\ changed' = {}
    /\ persisted' = {}
    /\ prior' = persisted
    /\ UNCHANGED <<cache, files>>

\* Variant of ReadPackageJson without the try/catch of lines 61-65: the
\* error of readJson reaches the caller as it is.
ReadPackageJsonUnwrapped ==
    /\ pc = "readJson"
    /\ effects' = Append(effects, "readJson")
    /\ \E readable \in BOOLEAN :
        IF pkgFile.valid /\ readable
            THEN /\ packageJson' = EnsureMaps(pkgFile.m)
                 /\ pc' = "getVersion"
                 /\ UNCHANGED <<error, status, commitFiles, flags>>
            ELSE Fail(Thrown("ENOENT"))
    /\ UNCHANGED <<run, cache, files, commits, log, changed, persisted, prior>>

\* Lines 61-77: readJson, then the two maps are defaulted.
ReadPackageJson ==
    /\ pc = "readJson"
    /\ effects' = Append(effects, "readJson")
    /\ \E readable \in BOOLEAN :
        IF pkgFile.valid /\ readable
            THEN /\ packageJson' = EnsureMaps(pkgFile.m)
                 /\ pc' = "getVersion"
                 /\ UNCHANGED <<error, status, commitFiles, flags>>
            ELSE Fail(ManifestError)
    /\ UNCHANGED <<run, cache, files, commits, log, changed, persisted, prior>>

\* Lines 80-96, run once the version is known.
Mutate(newGeneratorVersion) ==
    /\ LET oldGeneratorRange == packageJson.gen IN
        majorVersionBump' = MajorVersionBump(oldGeneratorRange, newGeneratorVersion)
    /\ updatedNpmScript' = ScriptNeedsUpdate(packageJson)
    /\ packageJson' = UpdateManifest(packageJson, newGeneratorVersion)
    /\ pc' = "writeJson"
    /\ UNCHANGED <<error, status, commitFiles, updatedTravis, updatedTypes>>

\* Variant of VersionCached without the test of line 37: every call asks
\* the registry.
VersionRefetched ==
    /\ pc = "getVersion"
    /\ latestGeneratorVersion # NoVersion
    /\ fetches' = fetches + 1
    /\ effects' = Append(effects, "npm info")
    /\ \E v \in Versions :
        /\ latestGeneratorVersion' = v
        /\ Mutate(v)
    /\ UNCHANGED <<run, files, commits, log, changed, persisted, prior>>

\* Lines 37, 47: the cache answers.
VersionCached ==
    /\ pc = "getVersion"
    /\ latestGeneratorVersion # NoVersion
    /\ Mutate(latestGeneratorVersion)
    /\ UNCHANGED <<run, cache, files, commits, effects, log, changed, persisted, prior>>

\* Lines 38-45: 'npm info' prints a latest version.
VersionFetched ==
    /\ pc = "getVersion"
    /\ latestGeneratorVersion = NoVersion
    /\ fetches' = fetches + 1
    /\ effects' = Append(effects, "npm info")
    /\ \E v \in Versions :
        /\ latestGeneratorVersion' = v
        /\ Mutate(v)
    /\ UNCHANGED <<run, files, commits, log, changed, persisted, prior>>

\* Lines 38-44: 'npm info' exits non-zero, or prints no latest version.
VersionFetchFailed ==
    /\ pc = "getVersion"
    /\ latestGeneratorVersion = NoVersion
    /\ fetches' = fetches + 1
    /\ effects' = Append(effects, "npm info")
    /\ \E e \in {Thrown("npm info failed"), VersionError} : Fail(e)
    /\ UNCHANGED <<run, latestGeneratorVersion, files, commits, log, changed,
                   persisted, prior>>

\* Line 98.  A write that fails leaves the file as it was or truncated.
WriteJson ==
    /\ pc = "writeJson"
    /\ effects' = Append(effects, "writeJson")
    /\ \/ /\ pkgFile' = [valid |-> TRUE, m |-> packageJson]
          /\ persisted' = persisted \cup {PackageJsonPath}
          /\ Goto("travis")
       \/ /\ \E truncated \in BOOLEAN :
                pkgFile' = IF truncated THEN [valid |-> FALSE, m |-> NoManifest] ELSE pkgFile
          /\ persisted' = persisted
          /\ Fail(Thrown("writeJson failed"))
    /\ changed' = IF pkgFile' # pkgFile THEN changed \cup {PackageJsonPath} ELSE changed
    /\ UNCHANGED <<run, cache, travisFile, lockFile, commits, log, prior>>

\* Variant of TravisMissing without the pathExists test of line 102:
\* readFile rejects.
TravisMissingThrows ==
    /\ pc = "travis"
    /\ ~travisFile.exists
    /\ effects' = Append(effects, "readFile .travis.yml")
    /\ Fail(Thrown("ENOENT"))
    /\ UNCHANGED <<run, cache, files, commits, log, changed, persisted, prior>>

\* Lines 102, 128-130: no .travis.yml, only a log line.
TravisMissing ==
    /\ pc = "travis"
    /\ ~travisFile.exists
    /\ log' = Append(log, MissingTravisLine)
    /\ Goto("lock")
    /\ UNCHANGED <<run, cache, files, commits, effects, changed, persisted, prior>>

\* Lines 102-127: load, drop the old check, append the new one, dump.
TravisUpdate ==
    /\ pc = "travis"
    /\ travisFile.exists
    /\ travisFile.kind \in {"list", "nolist"}
    /\ effects' = effects \o <<"readFile .travis.yml", "writeFile .travis.yml">>
    /\ \/ /\ travisFile' = [exists |-> TRUE, kind |-> "list",
                            bs |-> UpdateBeforeScript(travisFile)]
          /\ persisted' = persisted \cup {TravisPath}
          /\ Goto("lock")
       \/ /\ \E truncated \in BOOLEAN :
                travisFile' = IF truncated
                                THEN [exists |-> TRUE, kind |-> "invalid", bs |-> <<>>]
                                ELSE travisFile
          /\ persisted' = persisted
          /\ Fail(Thrown("writeFile failed"))
    /\ changed' = IF travisFile' # travisFile THEN changed \cup {TravisPath} ELSE changed
    /\ UNCHANGED <<run, cache, pkgFile, lockFile, commits, log, prior>>

\* Lines 103-112: the file does not load as a document, or before_script is
\* a string and has no filter method.
TravisUnusable ==
    /\ pc = "travis"
    /\ travisFile.exists
    /\ travisFile.kind \in {"scalar", "invalid"}
    /\ effects' = Append(effects, "readFile .travis.yml")
    /\ Fail(Thrown(IF travisFile.kind = "invalid" THEN "YAMLException" ELSE "TypeError"))
    /\ UNCHANGED <<run, cache, files, commits, log, changed, persisted, prior>>

\* Lines 136-139: the lock file exists and is removed.
RemoveLock ==
    /\ pc = "lock"
    /\ lockFile
    /\ effects' = Append(effects, "remove package-lock.json")
    /\ \/ lockFile' = FALSE /\ Goto("install")
       \/ lockFile' = lockFile /\ Fail(Thrown("remove failed"))
    /\ UNCHANGED <<run, cache, pkgFile, travisFile, commits, log, changed,
                   persisted, prior>>

\* Line 137: there is no lock file.
NoLock ==
    /\ pc = "lock"
    /\ ~lockFile
    /\ Goto("install")
    /\ UNCHANGED <<run, cache, files, commits, effects, log, changed, persisted, prior>>

\* Line 140.  A successful install may write a new lock file; a failed one
\* writes none.
NpmInstall ==
    /\ pc = "install"
    /\ effects' = Append(effects, "npm install")
    /\ \/ lockFile' \in BOOLEAN /\ Goto("runScript")
       \/ lockFile' = lockFile /\ Fail(Thrown("npm install failed"))
    /\ UNCHANGED <<run, cache, pkgFile, travisFile, commits, log, changed,
                   persisted, prior>>

\* Variant of NpmRunScript that catches the failure of the script and
\* goes on.
NpmRunScriptCaught ==
    /\ pc = "runScript"
    /\ effects' = Append(effects, "npm run update-types")
    /\ \/ Goto("status")
       \/ /\ pc' = "status"
          /\ error' = Thrown("npm run update-types failed")
          /\ UNCHANGED <<locals, flags>>
    /\ UNCHANGED <<run, cache, files, commits, log, changed, persisted, prior>>

\* Line 143.
NpmRunScript ==
    /\ pc = "runScript"
    /\ effects' = Append(effects, "npm run update-types")
    /\ \/ Goto("status")
       \/ Fail(Thrown("npm run update-types failed"))
    /\ UNCHANGED <<run, cache, files, commits, log, changed, persisted, prior>>

\* Lines 145-168: getStatus answers, the loop classifies, and the pass either
\* awaits makeCommit, which resolves or rejects, or logs that nothing changed.
ClassifyStatus ==
    /\ pc = "status"
    /\ \E st \in StatusLists :
        LET c == Classify(st) IN
        IF ShouldCommit(c.types, majorVersionBump, updatedNpmScript, c.travis)
            THEN /\ effects' = effects \o <<"getStatus", "makeCommit">>
                 /\ log' = log \o c.log
                 /\ \/ /\ commits' = Append(commits, [files |-> c.files,
                                                      message |-> commitMessage])
                       /\ status' = st
                       /\ updatedTypes' = c.types
                       /\ updatedTravis' = c.travis
                       /\ commitFiles' = c.files
                       /\ pc' = "done"
                       /\ UNCHANGED <<packageJson, majorVersionBump,
                                      updatedNpmScript, error>>
                    \/ /\ commits' = commits
                       /\ Fail(Thrown("makeCommit failed"))
            ELSE /\ effects' = Append(effects, "getStatus")
                 /\ log' = Append(log \o c.log, NoChangesLine)
                 /\ commits' = commits
                 /\ status' = st
                 /\ updatedTypes' = c.types
                 /\ updatedTravis' = c.travis
                 /\ commitFiles' = c.files
                 /\ pc' = "done"
                 /\ UNCHANGED <<packageJson, majorVersionBump, updatedNpmScript, error>>
    /\ UNCHANGED <<run, cache, files, changed, persisted, prior>>

\* Line 146: getStatus rejects.
StatusFailed ==
    /\ pc = "status"
    /\ effects' = Append(effects, "getStatus")
    /\ Fail(Thrown("getStatus failed"))
    /\ UNCHANGED <<run, cache, files, commits, log, changed, persisted, prior>>

Next ==
    \/ Invoke
    \/ ReadPackageJson
    \/ VersionCached
    \/ VersionFetched
    \/ VersionFetchFailed
    \/ WriteJson
    \/ TravisMissing
    \/ TravisUpdate
    \/ TravisUnusable
    \/ RemoveLock
    \/ NoLock
    \/ NpmInstall
    \/ NpmRunScript
    \/ ClassifyStatus
    \/ StatusFailed

Spec == Init /\ [][Next]_vars

\* ================================================================= claims
Has(seq, x) == \E i \in 1..Len(seq) : seq[i] = x
Last(seq) == seq[Len(seq)]
AnyFlag == updatedTypes \/ majorVersionBump \/ updatedNpmScript \/ updatedTravis

\* C1: when readJson fails the pass throws 'Missing or invalid package.json.'
\* naming the repository, and readJson is the only external call the
\* invocation has made: no subprocess, no write, no removal, no status
\* query, no commit.
ReadFailed == pc = "failed" /\ effects # <<>> /\ Last(effects) = "readJson"
C1_FailFastOnManifest ==
    /\ ReadFailed =>
        /\ error = [repo |-> ghRepoName, msg |-> "Missing or invalid package.json."]
        /\ effects = <<"readJson">>
        /\ commits = <<>>
        /\ changed = {}
        /\ persisted = {}
    /\ (pc = "failed" /\ error.msg = "Missing or invalid package.json.") => ReadFailed
    /\ (pc = "readJson" => effects = <<>>)
C1_Witness == ReadFailed /\ ~pkgFile.valid /\ travisFile.exists /\ lockFile

\* C2: a finished invocation has made a commit if and only if one of the
\* four flags is true after classification; with all four false it has
\* called makeCommit not at all and has logged 'No typings changed.'.  A
\* status of package.json and package-lock.json only, with no bump and no
\* script update, gives no commit.
OnlyManifestPaths(st) ==
    \A i \in 1..Len(st) : st[i] \in {PackageJsonPath, PackageLockPath}
C2_CommitIffFlag ==
    /\ pc = "done" =>
        /\ (commits # <<>>) <=> AnyFlag
        /\ Has(effects, "makeCommit") <=> AnyFlag
        /\ Has(log, NoChangesLine) <=> ~AnyFlag
        /\ (OnlyManifestPaths(status) /\ ~majorVersionBump /\ ~updatedNpmScript)
              => commits = <<>>
    /\ Len(commits) <= 1
    /\ (commits # <<>> => pc = "done")
C2_Witness ==
    /\ pc = "done"
    /\ status = <<PackageJsonPath>>
    /\ commits = <<>>
    /\ Has(log, NoChangesLine)

\* C3: the commit file set is exactly the changed paths that end in '.d.ts'
\* or equal '.travis.yml', 'package.json' or 'package-lock.json', in status
\* order; every other changed path is logged as unexpected, is not in the
\* file set and sets no flag.
Accepted(p) ==
    \/ p[Len(p)] = ".d.ts"
    \/ p \in {<<".travis.yml">>, <<"package.json">>, <<"package-lock.json">>}
Unaccepted(p) == ~Accepted(p)
C3_State ==
    pc = "done" =>
        /\ commitFiles = SelectSeq(status, Accepted)
        /\ \A i \in 1..Len(commits) : commits[i].files = SelectSeq(status, Accepted)
        /\ \A i \in 1..Len(status) :
              Unaccepted(status[i]) <=>
                  Has(log, [msg |-> "Unexpected changed file", path |-> status[i]])
        /\ updatedTypes <=> \E i \in 1..Len(status) : status[i][Len(status[i])] = ".d.ts"
        /\ updatedTravis <=> Has(status, <<".travis.yml">>)
C3_Step ==
    (pc = "status" /\ pc' = "done") =>
        /\ majorVersionBump' = majorVersionBump
        /\ updatedNpmScript' = updatedNpmScript
C3_CommitFileSet == []C3_State /\ [][C3_Step]_vars
C3_Witness ==
    /\ pc = "done"
    /\ status = <<<<"demo/", "package.json">>, TravisPath>>
    /\ commits = <<[files |-> <<TravisPath>>, message |-> commitMessage]>>

\* C4: after the mutation of the manifest the bump flag is true exactly when
\* the manifest read had no generator entry (devDependencies absent
\* included) or its range does not admit the resolved version, and once
\* the manifest is persisted the entry exists and is '^' + that version.
C4_PinAndBumpFlag ==
    /\ pc = "writeJson" =>
        /\ pkgFile.valid /\ latestGeneratorVersion \in Versions
        /\ majorVersionBump <=>
              (pkgFile.m.gen = NoRange \/ ~Satisfies(latestGeneratorVersion, pkgFile.m.gen))
        /\ (~pkgFile.m.hasDev \/ pkgFile.m.gen = NoRange) => majorVersionBump
        /\ packageJson.hasDev /\ packageJson.gen = [op |-> "^", v |-> latestGeneratorVersion]
    /\ PackageJsonPath \in persisted =>
        /\ pkgFile.valid /\ pkgFile.m.hasDev
        /\ pkgFile.m.gen = [op |-> "^", v |-> latestGeneratorVersion]
        /\ pc = "travis" => pkgFile.m = packageJson
C4_Witness ==
    /\ pc = "writeJson"
    /\ pkgFile.valid /\ ~pkgFile.m.hasDev
    /\ majorVersionBump
    /\ packageJson.gen = [op |-> "^", v |-> <<0, 1, 0>>]
    /\ packageJson.bower = "^1.8.0"

\* C5: when the range read admits the resolved version the bump flag is
\* false and the range is still rewritten to '^' + version; an invocation
\* that follows one which persisted the manifest hands writeJson the very
\* manifest on disk and sets neither the bump flag nor the script flag.
C5_ManifestIdempotent ==
    /\ (pc = "writeJson" /\ pkgFile.m.gen # NoRange
            /\ Satisfies(latestGeneratorVersion, pkgFile.m.gen)) =>
        /\ ~majorVersionBump
        /\ packageJson.gen = [op |-> "^", v |-> latestGeneratorVersion]
    /\ (pc = "writeJson" /\ PackageJsonPath \in prior) =>
        /\ packageJson = pkgFile.m
        /\ ~majorVersionBump
        /\ ~updatedNpmScript
    /\ (PackageJsonPath \in prior /\ PackageJsonPath \in persisted) =>
        PackageJsonPath \notin changed
C5_Witness ==
    /\ run = 2
    /\ PackageJsonPath \in prior
    /\ PackageJsonPath \in persisted
    /\ pkgFile.m.bower = "^1.7.0"
    /\ ~majorVersionBump /\ ~updatedNpmScript

\* C6: whatever before_script held, once the CI config is persisted exactly
\* one of its entries contains 'update-types' and that entry is the
\* injected command; the invocation after one that persisted the CI config
\* writes the same list again.
MarkerEntries(bs) == {i \in 1..Len(bs) : \E k \in 1..Len(bs[i]) : bs[i][k] = "update-types"}
C6_OneInjectedCommand ==
    /\ TravisPath \in persisted =>
        /\ travisFile.exists /\ travisFile.kind = "list"
        /\ Cardinality(MarkerEntries(travisFile.bs)) = 1
        /\ \A i \in MarkerEntries(travisFile.bs) : travisFile.bs[i] = travisCommand
    /\ (TravisPath \in persisted /\ TravisPath \in prior) => TravisPath \notin changed
C6_Witness ==
    /\ run = 2
    /\ TravisPath \in prior
    /\ TravisPath \in persisted
    /\ Len(travisFile.bs) = 2

\* C7: when there is no .travis.yml at the CI step the pass logs the
\* missing-config line, neither reads, writes nor creates the file, and goes
\* on: the lock file is removed, and 'npm install', 'npm run update-types',
\* getStatus and the commit decision follow unless one of them fails.
PastTravis == pc \in {"lock", "install", "runScript", "status", "done"}
LaterFailures ==
    {"remove failed", "npm install failed", "npm run update-types failed",
     "getStatus failed", "makeCommit failed"}
C7_MissingTravis ==
    /\ Has(log, MissingTravisLine) =>
        /\ ~travisFile.exists
        /\ ~Has(effects, "readFile .travis.yml")
        /\ ~Has(effects, "writeFile .travis.yml")
        /\ TravisPath \notin changed \cup persisted
        /\ PastTravis \/ (pc = "failed" /\ error.msg \in LaterFailures)
        /\ pc \in {"install", "runScript", "status", "done"} =>
              (lockFile => Has(effects, "npm install"))
        /\ pc = "done" =>
              /\ Has(effects, "npm install")
              /\ Has(effects, "npm run update-types")
              /\ Has(effects, "getStatus")
              /\ commits # <<>> \/ Has(log, NoChangesLine)
    /\ (PastTravis /\ ~travisFile.exists) => Has(log, MissingTravisLine)
    /\ (pc = "failed" /\ ~travisFile.exists /\ PackageJsonPath \in persisted) =>
        Has(log, MissingTravisLine)
C7_Witness ==
    /\ pc = "done"
    /\ ~travisFile.exists
    /\ Has(log, MissingTravisLine)
    /\ Has(effects, "remove package-lock.json")
    /\ commits # <<>>

\* C8: the external calls of an invocation follow the order of the source,
\* and the call that fails is the last one: after a failed version query
\* the manifest is not written; after a failed 'npm install' the script is
\* not run; after either subprocess fails there is no status query and no
\* commit, and package.json, .travis.yml and the removed lock file stay as
\* the pass left them.
Order ==
    <<"readJson", "npm info", "writeJson", "readFile .travis.yml",
      "writeFile .travis.yml", "remove package-lock.json", "npm install",
      "npm run update-types", "getStatus", "makeCommit">>
Position(e) == CHOOSE i \in 1..Len(Order) : Order[i] = e
Culprit(msg) ==
    CASE msg = "Missing or invalid package.json." -> "readJson"
      [] msg \in {"npm info failed", VersionError.msg} -> "npm info"
      [] msg = "writeJson failed" -> "writeJson"
      [] msg \in {"YAMLException", "TypeError"} -> "readFile .travis.yml"
      [] msg = "writeFile failed" -> "writeFile .travis.yml"
      [] msg = "remove failed" -> "remove package-lock.json"
      [] msg = "npm install failed" -> "npm install"
      [] msg = "npm run update-types failed" -> "npm run update-types"
      [] msg = "getStatus failed" -> "getStatus"
      [] msg = "makeCommit failed" -> "makeCommit"
      [] OTHER -> "none"
C8_FailFastNoRollback ==
    /\ \A i, j \in 1..Len(effects) :
          i < j => Position(effects[i]) < Position(effects[j])
    /\ (error # NoError) <=> (pc = "failed")
    /\ error # NoError => effects # <<>> /\ Last(effects) = Culprit(error.msg)
    /\ error.msg \in {"npm info failed", VersionError.msg} =>
        /\ ~Has(effects, "writeJson")
        /\ PackageJsonPath \notin changed \cup persisted
    /\ error.msg = "npm install failed" =>
        /\ ~Has(effects, "npm run update-types")
        /\ ~lockFile
    /\ error.msg \in {"npm install failed", "npm run update-types failed"} =>
        /\ ~Has(effects, "getStatus")
        /\ commits = <<>>
        /\ PackageJsonPath \in persisted
        /\ pkgFile.valid
        /\ pkgFile.m.gen = Caret(latestGeneratorVersion)
        /\ pkgFile.m.script = npmScriptCommand
        /\ travisFile.exists =>
              /\ TravisPath \in persisted
              /\ travisFile.bs # <<>>
              /\ Last(travisFile.bs) = travisCommand
C8_Witness ==
    /\ pc = "failed"
    /\ error.msg = "npm install failed"
    /\ changed = {PackageJsonPath, TravisPath}
    /\ Has(effects, "remove package-lock.json")
    /\ ~lockFile

\* C9: an invocation spawns 'npm info' at most once; once the version is
\* resolved it is never replaced and 'npm info' is never spawned again,
\* so every later invocation works with the cached value.  (A query that
\* fails resolves nothing: the next invocation asks again.)
Occurrences(seq, x) == Cardinality({i \in 1..Len(seq) : seq[i] = x})
C9_State ==
    /\ Occurrences(effects, "npm info") <= 1
    /\ latestGeneratorVersion = NoVersion \/ latestGeneratorVersion \in Versions
    /\ pc \in {"writeJson", "travis", "lock", "install", "runScript", "status", "done"} =>
          latestGeneratorVersion \in Versions
    /\ pc = "writeJson" => packageJson.gen = Caret(latestGeneratorVersion)
    /\ latestGeneratorVersion # NoVersion => fetches >= 1
C9_Step ==
    latestGeneratorVersion # NoVersion =>
        /\ latestGeneratorVersion' = latestGeneratorVersion
        /\ fetches' = fetches
        /\ Occurrences(effects', "npm info") <= Occurrences(effects, "npm info")
StatusFaithful == \A p \in changed : Has(status, p)
C10_CommitNotEmpty ==
    /\ (PackageJsonPath \in persisted /\ (majorVersionBump \/ updatedNpmScript)) =>
          PackageJsonPath \in changed
    /\ pc = "done" =>
        /\ updatedTypes => \E i \in 1..Len(commitFiles) : EndsWith(commitFiles[i], DtsSuffix)
        /\ updatedTravis => Has(commitFiles, TravisPath)
        /\ (commits # <<>> /\ StatusFaithful) =>
              /\ commitFiles # <<>>
              /\ commits[1].files # <<>>
C10_Witness ==
    /\ pc = "done"
    /\ commits # <<>>
    /\ StatusFaithful
    /\ majorVersionBump /\ ~updatedNpmScript /\ ~updatedTypes /\ ~updatedTravis
    /\ commits[1].files = <<PackageJsonPath>>

====
